---- MODULE Spec2Model ----
(***************************************************************************)
(* Verification model of the asynchronous message-processing core:        *)
(*   - MessageBroker      (src/src/lib/messageBroker.ts)                   *)
(*   - IdempotencyManager (src/src/lib/encryption.ts, lines 330-772)       *)
(* and of two utilities beside it:                                         *)
(*   - RateLimiter        (src/src/lib/cleanup.ts, lines 552-752)          *)
(*   - DataCleanupManager (src/src/lib/cleanup.ts, lines 33-520)           *)
(*                                                                         *)
(* JavaScript runs one callback at a time, so every action below is one   *)
(* run-to-completion segment of the source: the code between two awaits,  *)
(* or a whole synchronous method.                                          *)
(***************************************************************************)
EXTENDS Integers, Sequences, FiniteSets, TLC

VARIABLES
    \* ---- MessageBroker fields (messageBroker.ts:22-25)
    messageQueue,      \* Message[]: sequence of [id, retryCount]
    deadLetterQueue,   \* Message[]: sequence of [id, retryCount]
    processing,        \* boolean
    config,            \* MessageBrokerConfig
    \* ---- MessageBroker control state
    loops,             \* activations of processQueue, each [pc, msg]
    timers,            \* pending setTimeout callbacks of handleFailedMessage
    \* ---- MessageBroker environment and observation
    nextId,            \* number of ids handed out by generateMessageId, plus 1
    plan,              \* per message id: how the handler behaves on it
    deliveryLog,       \* per message id: the retryCount the handler saw on each delivery
    deliveryOrder,     \* message ids in the order of their first delivery
    requeues,          \* number of retryDeadLetterMessage calls that requeued a message
    \* ---- IdempotencyManager fields (encryption.ts:354-355)
    store,             \* Map<string, IdempotencyRecord>, absent keys hold NoRecord
    ledgerConfig,      \* IdempotencyConfig
    \* ---- IdempotencyManager environment and observation
    now,               \* the clock read by `new Date()`
    calls,             \* executeWithIdempotency calls made so far, in order
    okCount,           \* per key: actions completed successfully within the
                       \* lifetime of the key's current record
    staleFlight,       \* per key: a record expired while a call was in flight
    lastApi,           \* the direct call of a ledger method made in the latest step:
                       \* its arguments, the record it found and its answer
    \* ---- RateLimiter fields of the exported instance (cleanup.ts:553-554)
    limiterStore,      \* Map<string, RateLimitEntry>, absent keys hold NoEntry
    limiterConfig,     \* RateLimitConfig
    \* ---- RateLimiter environment and observation
    clock,             \* the clock read by Date.now(), in ms
    intervals,         \* setInterval registrations made by RateLimiter constructors
    checks,            \* number of limit checks made so far
    window,            \* per channel: when the current window of the channel's user
                       \* began and how many checks were allowed within it
    lastLimit,         \* the answer of the latest limit check
    \* ---- DataCleanupManager fields (cleanup.ts:35-36)
    cleanupHistory,    \* CleanupResult[]: sequence of [dataType]
    isRunning,         \* boolean
    \* ---- DataCleanupManager control state, environment and observation
    passes,            \* runFullCleanup calls past the isRunning test, each
                       \* [pc, index, results]
    started,           \* number of runFullCleanup calls made so far
    thrown,            \* number of cleanupDataType calls that threw
    lastRun            \* the latest runFullCleanup call that returned: how, and
                       \* the results it returned

brokerVars == <<messageQueue, deadLetterQueue, processing, config, loops, timers,
                nextId, plan, deliveryLog, deliveryOrder, requeues>>

ledgerVars == <<store, ledgerConfig, now, calls, okCount, staleFlight, lastApi>>

limiterVars == <<limiterStore, limiterConfig, clock, intervals, checks, window, lastLimit>>

cleanupVars == <<cleanupHistory, isRunning, passes, started, thrown, lastRun>>

utilVars == <<limiterVars, cleanupVars>>

vars == <<brokerVars, ledgerVars, utilVars>>

-----------------------------------------------------------------------------
(* Bounds of the model *)

MaxMsgs == 3
MaxRequeues == 1
MaxCalls == 3
MaxTime == 2
MaxRetryCount == 1
MaxChecks == 11
MaxMinutes == 1
MaxStarted == 15
MaxThrown == 1

(* `this.cleanupHistory.length > 100` (cleanup.ts:188) *)
HistoryLimit == 100

(* Configurations the broker is constructed with (messageBroker.ts:27-33) *)
BrokerConfigs ==
    {[maxRetries |-> 0, retryDelay |-> 1000, deadLetterQueueSize |-> 1],
     [maxRetries |-> 0, retryDelay |-> 1000, deadLetterQueueSize |-> 2],
     [maxRetries |-> 1, retryDelay |-> 1000, deadLetterQueueSize |-> 2],
     [maxRetries |-> 2, retryDelay |-> 500, deadLetterQueueSize |-> 1]}

MsgIds == 1..MaxMsgs

(* How the handler treats one message: it throws on every delivery, or it *)
(* throws on the first k deliveries and then returns normally.            *)
PlanChoices == {[always |-> TRUE, k |-> 0]} \cup
               {[always |-> FALSE, k |-> j] : j \in 0..1}
NoPlan == [always |-> FALSE, k |-> 0]

NoMsg == [id |-> 0, retryCount |-> 0]

-----------------------------------------------------------------------------
(* Helpers *)

RECURSIVE Pow2(_)
Pow2(n) == IF n <= 0 THEN 1 ELSE 2 * Pow2(n - 1)

IdsOf(s) == {s[i].id : i \in 1..Len(s)}

RemoveAt(s, i) == SubSeq(s, 1, i - 1) \o SubSeq(s, i + 1, Len(s))

(* Array.prototype.findIndex: the least index whose element matches, 0 for -1 *)
FindIndex(s, id) ==
    IF \E i \in 1..Len(s) : s[i].id = id
    THEN CHOOSE i \in 1..Len(s) : s[i].id = id /\ \A j \in 1..(i - 1) : s[j].id # id
    ELSE 0

DeliveriesOf(id) == deliveryLog[id]

(* processMessage on the n-th delivery of a message: TRUE when it throws *)
HandlerThrows(id, n) == plan[id].always \/ n <= plan[id].k

-----------------------------------------------------------------------------
(* MessageBroker *)

(* the broker as constructed with one of the configurations cfgs *)
BrokerStart(cfgs) ==
    /\ messageQueue = <<>>
    /\ deadLetterQueue = <<>>
    /\ processing = FALSE
    /\ config \in cfgs
    /\ loops = <<>>
    /\ timers = {}
    /\ nextId = 1
    /\ plan = [i \in MsgIds |-> NoPlan]
    /\ deliveryLog = [i \in MsgIds |-> <<>>]
    /\ deliveryOrder = <<>>
    /\ requeues = 0

BrokerInit == BrokerStart(BrokerConfigs)

(* The while loop of processQueue, from its condition to the next await:   *)
(* the result of one pass for activation i over queue q.                   *)
(* Yields [queue, loops, processing, log]; log is the pair of observation  *)
(* variables <<deliveryLog, deliveryOrder>>.                               *)
Delivered(log, m) ==
    <<[log[1] EXCEPT ![m.id] = Append(@, m.retryCount)],
      IF log[1][m.id] = <<>> THEN Append(log[2], m.id) ELSE log[2]>>

LoopPass(q, ls, i, log) ==
    IF Len(q) > 0
    THEN [queue |-> Tail(q),
          loops |-> [ls EXCEPT ![i] = [pc |-> "handling", msg |-> Head(q)]],
          processing |-> TRUE,
          log |-> Delivered(log, Head(q))]
    ELSE [queue |-> q,
          loops |-> RemoveAt(ls, i),
          processing |-> FALSE,
          log |-> log]

(* processQueue(): sets processing and runs up to the first await *)
ProcessQueue(q, ls, log) ==
    LoopPass(q, Append(ls, [pc |-> "start", msg |-> NoMsg]), Len(ls) + 1, log)

(* a bug: processQueue started without looking at this.processing *)
StartAlways(proc, q, ls, log) == ProcessQueue(q, ls, log)

(* The `if (!this.processing) this.processQueue()` of publishMessage and   *)
(* retryDeadLetterMessage                                                  *)
StartIfIdle(proc, q, ls, log) ==
    IF ~proc
    THEN ProcessQueue(q, ls, log)
    ELSE [queue |-> q, loops |-> ls, processing |-> proc, log |-> log]

(* a bug: unshift where the source pushes *)
EnqueueAtHead(q, m) == <<m>> \o q

(* Array.prototype.push *)
Enqueue(q, m) == Append(q, m)

PublishMessage(pl) ==
    /\ nextId <= MaxMsgs
    /\ LET m == [id |-> nextId, retryCount |-> 0]
           r == StartIfIdle(processing, Enqueue(messageQueue, m), loops,
                            <<deliveryLog, deliveryOrder>>)
       IN /\ messageQueue' = r.queue
          /\ loops' = r.loops
          /\ processing' = r.processing
          /\ deliveryLog' = r.log[1]
          /\ deliveryOrder' = r.log[2]
    /\ plan' = [plan EXCEPT ![nextId] = pl]
    /\ nextId' = nextId + 1
    /\ UNCHANGED <<deadLetterQueue, config, timers, requeues, ledgerVars, utilVars>>

(* await processMessage(message) returns normally: the loop goes on *)
HandlerSucceeds(i) ==
    /\ i \in 1..Len(loops)
    /\ loops[i].pc = "handling"
    /\ ~HandlerThrows(loops[i].msg.id, Len(DeliveriesOf(loops[i].msg.id)))
    /\ LET r == LoopPass(messageQueue, loops, i, <<deliveryLog, deliveryOrder>>)
       IN /\ messageQueue' = r.queue
          /\ loops' = r.loops
          /\ processing' = r.processing
          /\ deliveryLog' = r.log[1]
          /\ deliveryOrder' = r.log[2]
    /\ UNCHANGED <<deadLetterQueue, config, timers, nextId, plan, requeues, ledgerVars, utilVars>>

(* a bug: `>` where the source compares with `>=` *)
MoveToDeadLetterQueueLate(dlq, m) ==
    Append(IF Len(dlq) > config.deadLetterQueueSize THEN Tail(dlq) ELSE dlq, m)

(* a bug: a full dead-letter queue refuses the new message *)
MoveToDeadLetterQueueDropping(dlq, m) ==
    IF Len(dlq) >= config.deadLetterQueueSize THEN dlq ELSE Append(dlq, m)

(* moveToDeadLetterQueue *)
MoveToDeadLetterQueue(dlq, m) ==
    Append(IF Len(dlq) >= config.deadLetterQueueSize /\ Len(dlq) > 0
           THEN Tail(dlq) ELSE dlq, m)

(* a bug: `<` where the source compares with `<=` *)
RetryAllowedShort(retryCount) == retryCount < config.maxRetries

RetryAllowed(retryCount) == retryCount <= config.maxRetries

(* a bug: linear backoff *)
RetryDelayLinear(retryCount) == config.retryDelay * retryCount

RetryDelay(retryCount) == config.retryDelay * Pow2(retryCount - 1)

(* await processMessage(message) throws: the catch block runs              *)
(* handleFailedMessage up to the await of its (already settled) promise    *)
HandlerFails(i) ==
    /\ i \in 1..Len(loops)
    /\ loops[i].pc = "handling"
    /\ HandlerThrows(loops[i].msg.id, Len(DeliveriesOf(loops[i].msg.id)))
    /\ LET message == loops[i].msg
           retryCount == message.retryCount + 1
       IN IF RetryAllowed(retryCount)
          THEN /\ timers' = timers \cup {[msg |-> message, retryCount |-> retryCount,
                                          delay |-> RetryDelay(retryCount)]}
               /\ UNCHANGED deadLetterQueue
          ELSE /\ deadLetterQueue' = MoveToDeadLetterQueue(deadLetterQueue, message)
               /\ UNCHANGED timers
    /\ loops' = [loops EXCEPT ![i] = [pc |-> "failed", msg |-> NoMsg]]
    /\ UNCHANGED <<messageQueue, processing, config, nextId, plan, deliveryLog,
                   deliveryOrder, requeues, ledgerVars, utilVars>>

(* a bug: the handler's exception leaves processQueue, as without the      *)
(* try/catch of lines 67-73                                                 *)
LoopStopsAfterFailure(i) ==
    /\ i \in 1..Len(loops)
    /\ loops[i].pc = "failed"
    /\ loops' = RemoveAt(loops, i)
    /\ processing' = FALSE
    /\ UNCHANGED <<messageQueue, deadLetterQueue, config, timers, nextId, plan,
                   deliveryLog, deliveryOrder, requeues, ledgerVars, utilVars>>

(* a bug: handleFailedMessage awaits the retry delay, so the loop goes on  *)
(* only when no retry is pending                                            *)
LoopResumesAfterDelay(i) ==
    /\ i \in 1..Len(loops)
    /\ loops[i].pc = "failed"
    /\ timers = {}
    /\ LET r == LoopPass(messageQueue, loops, i, <<deliveryLog, deliveryOrder>>)
       IN /\ messageQueue' = r.queue
          /\ loops' = r.loops
          /\ processing' = r.processing
          /\ deliveryLog' = r.log[1]
          /\ deliveryOrder' = r.log[2]
    /\ UNCHANGED <<deadLetterQueue, config, timers, nextId, plan, requeues, ledgerVars, utilVars>>

(* the loop resumes after `await this.handleFailedMessage(message)` *)
LoopResumes(i) ==
    /\ i \in 1..Len(loops)
    /\ loops[i].pc = "failed"
    /\ LET r == LoopPass(messageQueue, loops, i, <<deliveryLog, deliveryOrder>>)
       IN /\ messageQueue' = r.queue
          /\ loops' = r.loops
          /\ processing' = r.processing
          /\ deliveryLog' = r.log[1]
          /\ deliveryOrder' = r.log[2]
    /\ UNCHANGED <<deadLetterQueue, config, timers, nextId, plan, requeues, ledgerVars, utilVars>>

(* a bug: push where the source unshifts *)
RetryCallbackAtTail(q, ls, log, t) ==
    [queue |-> Append(q, [id |-> t.msg.id, retryCount |-> t.retryCount]),
     loops |-> ls, processing |-> processing, log |-> log]

(* the body of the setTimeout callback of handleFailedMessage *)
RetryCallback(q, ls, log, t) ==
    [queue |-> <<[id |-> t.msg.id, retryCount |-> t.retryCount]>> \o q,
     loops |-> ls, processing |-> processing, log |-> log]

(* A timer callback is a task of its own: it runs when no continuation of  *)
(* an already settled promise (the loop after handleFailedMessage) is due. *)
RetryTimerFires(t) ==
    /\ t \in timers
    /\ \A i \in 1..Len(loops) : loops[i].pc # "failed"
    /\ LET r == RetryCallback(messageQueue, loops, <<deliveryLog, deliveryOrder>>, t)
       IN /\ messageQueue' = r.queue
          /\ loops' = r.loops
          /\ processing' = r.processing
          /\ deliveryLog' = r.log[1]
          /\ deliveryOrder' = r.log[2]
    /\ timers' = timers \ {t}
    /\ UNCHANGED <<deadLetterQueue, config, nextId, plan, requeues, ledgerVars, utilVars>>

(* a bug: the entry is copied to the queue and stays in the dead-letter    *)
(* queue                                                                    *)
RequeueKeepingEntry(dlq, proc, q, ls, log, messageId) ==
    LET messageIndex == FindIndex(dlq, messageId)
    IN IF messageIndex = 0
       THEN [found |-> FALSE, deadLetterQueue |-> dlq, queue |-> q, loops |-> ls,
             processing |-> proc, log |-> log]
       ELSE LET message == [dlq[messageIndex] EXCEPT !.retryCount = 0]
                r == StartIfIdle(proc, Enqueue(q, message), ls, log)
            IN [found |-> TRUE, deadLetterQueue |-> dlq,
                queue |-> r.queue, loops |-> r.loops, processing |-> r.processing,
                log |-> r.log]

(* retryDeadLetterMessage(messageId) called in the broker state given by   *)
(* the first five arguments: [found, deadLetterQueue, queue, loops,         *)
(* processing, log]; found is the value returned                            *)
Requeue(dlq, proc, q, ls, log, messageId) ==
    LET messageIndex == FindIndex(dlq, messageId)
    IN IF messageIndex = 0
       THEN [found |-> FALSE, deadLetterQueue |-> dlq, queue |-> q, loops |-> ls,
             processing |-> proc, log |-> log]
       ELSE LET message == [dlq[messageIndex] EXCEPT !.retryCount = 0]
                r == StartIfIdle(proc, Enqueue(q, message), ls, log)
            IN [found |-> TRUE, deadLetterQueue |-> RemoveAt(dlq, messageIndex),
                queue |-> r.queue, loops |-> r.loops, processing |-> r.processing,
                log |-> r.log]

(* requeues counts the calls that found their message *)
RetryDeadLetterMessage(messageId) ==
    LET r == Requeue(deadLetterQueue, processing, messageQueue, loops,
                     <<deliveryLog, deliveryOrder>>, messageId)
    IN /\ r.found => requeues < MaxRequeues
       /\ requeues' = IF r.found THEN requeues + 1 ELSE requeues
       /\ deadLetterQueue' = r.deadLetterQueue
       /\ messageQueue' = r.queue
       /\ loops' = r.loops
       /\ processing' = r.processing
       /\ deliveryLog' = r.log[1]
       /\ deliveryOrder' = r.log[2]
       /\ UNCHANGED <<config, timers, nextId, plan, ledgerVars, utilVars>>

(* getQueueStats *)
GetQueueStats ==
    [activeMessages |-> Len(messageQueue),
     deadLetterMessages |-> Len(deadLetterQueue),
     isProcessing |-> processing]

(* getDeadLetterMessages *)
GetDeadLetterMessages == deadLetterQueue

BrokerNext ==
    \/ \E pl \in PlanChoices : PublishMessage(pl)
    \/ \E i \in 1..Len(loops) : HandlerSucceeds(i)
    \/ \E i \in 1..Len(loops) : HandlerFails(i)
    \/ \E i \in 1..Len(loops) : LoopResumes(i)
    \/ \E t \in timers : RetryTimerFires(t)
    \/ \E id \in MsgIds : RetryDeadLetterMessage(id)

-----------------------------------------------------------------------------
(* IdempotencyManager *)

(* Identifiers are strings, modelled as sequences of characters.  The      *)
(* (actionId, customerId) pairs callers use; Pairs have different keys.     *)
Pairs ==
    {[customerId |-> <<"c">>, actionId |-> <<"x">>],
     [customerId |-> <<"c">>, actionId |-> <<"x", ":", "y">>]}

AllPairs == Pairs \cup {[customerId |-> <<"c", ":", "x">>, actionId |-> <<"y">>]}

(* generateKey: `${customerId}:${actionId}` *)
GenerateKey(actionId, customerId) == customerId \o <<":">> \o actionId

KeyOf(p) == GenerateKey(p.actionId, p.customerId)

StoreKeys == {KeyOf(p) : p \in AllPairs}

(* Values of the `result` field *)
NoResult == [kind |-> "none", v |-> 0]
Value(n) == [kind |-> "value", v |-> n]
ErrorResult(msg) == [kind |-> "error", v |-> 0]

NoPair == [customerId |-> <<>>, actionId |-> <<>>]

(* The value store.get yields for a key without record.  Of a record the   *)
(* model keeps the fields some method reads: status, result, expiresAt,    *)
(* metadata.retryCount, and the identifiers.                               *)
NoRecord == [status |-> "absent", result |-> NoResult, expiresAt |-> 0,
             retryCount |-> 0, actionId |-> <<>>, customerId |-> <<>>]

NoApi == [op |-> "none", pair |-> NoPair, arg |-> NoResult, pre |-> NoRecord,
          ok |-> FALSE, rec |-> NoRecord, reason |-> ""]

TtlChoices == {1, 2}
LedgerMaxRetriesChoices == {0, 1, 2}

LedgerInit ==
    /\ store = [k \in StoreKeys |-> NoRecord]
    /\ ledgerConfig \in [ttlMs : TtlChoices, maxRetries : LedgerMaxRetriesChoices]
    /\ now = 0
    /\ calls = <<>>
    /\ okCount = [k \in StoreKeys |-> 0]
    /\ staleFlight = [k \in StoreKeys |-> FALSE]
    /\ lastApi = NoApi

(* a bug: a record counts as expired at expiresAt already *)
IsExpiredEarly(rec, t) == t >= rec.expiresAt

(* `new Date() > existingRecord.expiresAt` *)
IsExpired(rec, t) == t > rec.expiresAt

(* a bug: one retry more than configured *)
RetriesExhaustedLate(rec) == rec.retryCount > ledgerConfig.maxRetries

(* the retry test of checkIdempotency on a failed record *)
RetriesExhausted(rec) == rec.retryCount >= ledgerConfig.maxRetries

(* a bug: the expired record is reported but left in the store *)
CheckIdempotencyKeepingExpired(st, t, actionId, customerId) ==
    LET key == GenerateKey(actionId, customerId)
        existingRecord == st[key]
    IN IF existingRecord.status = "absent" \/ IsExpired(existingRecord, t)
       THEN [canProceed |-> TRUE, existingRecord |-> NoRecord, reason |-> "", store |-> st]
       ELSE IF existingRecord.status = "failed" /\ ~RetriesExhausted(existingRecord)
       THEN [canProceed |-> TRUE, existingRecord |-> existingRecord,
             reason |-> "", store |-> st]
       ELSE [canProceed |-> FALSE, existingRecord |-> existingRecord,
             reason |-> CASE existingRecord.status = "pending" -> "Action is still in progress"
                          [] existingRecord.status = "completed" -> "Action already completed"
                          [] OTHER -> "Max retries exceeded",
             store |-> st]

(* checkIdempotency: [canProceed, existingRecord, reason, store] *)
CheckIdempotency(st, t, actionId, customerId) ==
    LET key == GenerateKey(actionId, customerId)
        existingRecord == st[key]
    IN IF existingRecord.status = "absent"
       THEN [canProceed |-> TRUE, existingRecord |-> NoRecord, reason |-> "", store |-> st]
       ELSE IF IsExpired(existingRecord, t)
       THEN [canProceed |-> TRUE, existingRecord |-> NoRecord, reason |-> "",
             store |-> [st EXCEPT ![key] = NoRecord]]
       ELSE IF existingRecord.status = "pending"
       THEN [canProceed |-> FALSE, existingRecord |-> existingRecord,
             reason |-> "Action is still in progress", store |-> st]
       ELSE IF existingRecord.status = "completed"
       THEN [canProceed |-> FALSE, existingRecord |-> existingRecord,
             reason |-> "Action already completed", store |-> st]
       ELSE IF existingRecord.status = "failed"
       THEN IF RetriesExhausted(existingRecord)
            THEN [canProceed |-> FALSE, existingRecord |-> existingRecord,
                  reason |-> "Max retries exceeded", store |-> st]
            ELSE [canProceed |-> TRUE, existingRecord |-> existingRecord,
                  reason |-> "", store |-> st]
       ELSE [canProceed |-> FALSE, existingRecord |-> existingRecord,
             reason |-> "Unknown status", store |-> st]

(* a bug: the pending record is written with the status "failed" *)
StoreActionAsFailed(st, t, actionId, customerId) ==
    [st EXCEPT ![GenerateKey(actionId, customerId)] =
        [status |-> "failed", result |-> NoResult,
         expiresAt |-> t + ledgerConfig.ttlMs, retryCount |-> 0,
         actionId |-> actionId, customerId |-> customerId]]

(* storeAction, called without metadata: the store afterwards *)
StoreAction(st, t, actionId, customerId) ==
    [st EXCEPT ![GenerateKey(actionId, customerId)] =
        [status |-> "pending", result |-> NoResult,
         expiresAt |-> t + ledgerConfig.ttlMs, retryCount |-> 0,
         actionId |-> actionId, customerId |-> customerId]]

(* a bug: the result is stored and the status left as it was *)
MarkCompletedKeepingStatus(st, actionId, customerId, result) ==
    LET key == GenerateKey(actionId, customerId)
    IN IF st[key].status = "absent"
       THEN [ok |-> FALSE, store |-> st]
       ELSE [ok |-> TRUE, store |-> [st EXCEPT ![key].result = result]]

(* a bug: markCompleted creates the record it does not find *)
MarkCompletedCreating(st, actionId, customerId, result) ==
    LET key == GenerateKey(actionId, customerId)
    IN [ok |-> TRUE,
        store |-> [st EXCEPT ![key].status = "completed", ![key].result = result]]

(* markCompleted, called without metadata: [ok, store] *)
MarkCompleted(st, actionId, customerId, result) ==
    LET key == GenerateKey(actionId, customerId)
    IN IF st[key].status = "absent"
       THEN [ok |-> FALSE, store |-> st]
       ELSE [ok |-> TRUE,
             store |-> [st EXCEPT ![key].status = "completed", ![key].result = result]]

(* a bug: markFailed creates the record it does not find *)
MarkFailedCreating(st, actionId, customerId, error) ==
    LET key == GenerateKey(actionId, customerId)
    IN [ok |-> TRUE,
        store |-> [st EXCEPT ![key].status = "failed",
                             ![key].result = ErrorResult(error),
                             ![key].retryCount = @ + 1]]

(* markFailed, called without metadata: [ok, store] *)
MarkFailed(st, actionId, customerId, error) ==
    LET key == GenerateKey(actionId, customerId)
    IN IF st[key].status = "absent"
       THEN [ok |-> FALSE, store |-> st]
       ELSE [ok |-> TRUE,
             store |-> [st EXCEPT ![key].status = "failed",
                                  ![key].result = ErrorResult(error),
                                  ![key].retryCount = @ + 1]]

(* removeAction: [deleted, store] *)
RemoveAction(st, actionId, customerId) ==
    LET key == GenerateKey(actionId, customerId)
    IN [deleted |-> st[key].status # "absent", store |-> [st EXCEPT ![key] = NoRecord]]

(* a bug: the sweep spares pending records *)
CleanupSparingPending(st, t) ==
    [k \in StoreKeys |->
        IF st[k].status \notin {"absent", "pending"} /\ IsExpired(st[k], t)
        THEN NoRecord ELSE st[k]]

(* cleanupExpiredRecords: the store afterwards *)
CleanupExpiredRecords(st, t) ==
    [k \in StoreKeys |->
        IF st[k].status # "absent" /\ IsExpired(st[k], t) THEN NoRecord ELSE st[k]]

(* getActionResult *)
GetActionResult(st, actionId, customerId) ==
    LET record == st[GenerateKey(actionId, customerId)]
    IN IF record.status # "completed" THEN NoResult ELSE record.result

(* getActionStatus: exists, status and result of what it returns *)
GetActionStatus(st, actionId, customerId) ==
    LET record == st[GenerateKey(actionId, customerId)]
    IN IF record.status = "absent"
       THEN [exists |-> FALSE, status |-> "absent", result |-> NoResult]
       ELSE [exists |-> TRUE, status |-> record.status, result |-> record.result]

(* okCount after the store changed: it counts within the lifetime of the   *)
(* key's current record                                                    *)
Windowed(oc, st) == [k \in StoreKeys |-> IF st[k].status = "absent" THEN 0 ELSE oc[k]]

Running(k) == {c \in 1..Len(calls) : calls[c].pc = "running" /\ calls[c].key = k}

(* a bug: the refusal of lines 678-684 is missing, only a completed record *)
(* stops the call                                                           *)
ExecuteBeginUnguarded(st, t, actionId, customerId) ==
    LET idempotencyCheck == CheckIdempotency(st, t, actionId, customerId)
    IN IF ~idempotencyCheck.canProceed /\ idempotencyCheck.existingRecord.status = "completed"
       THEN [store |-> idempotencyCheck.store, invoke |-> FALSE,
             response |-> [success |-> TRUE,
                           result |-> idempotencyCheck.existingRecord.result,
                           fromCache |-> TRUE, error |-> ""]]
       ELSE [store |-> StoreAction(idempotencyCheck.store, t, actionId, customerId),
             invoke |-> TRUE,
             response |-> [success |-> FALSE, result |-> NoResult,
                           fromCache |-> FALSE, error |-> "in flight"]]

(* executeWithIdempotency up to `await actionFunction()` (lines 664-691):  *)
(* [store, invoke, response]; response is what the call returns when it    *)
(* returns without invoking the action                                      *)
ExecuteBegin(st, t, actionId, customerId) ==
    LET idempotencyCheck == CheckIdempotency(st, t, actionId, customerId)
    IN IF ~idempotencyCheck.canProceed /\ idempotencyCheck.existingRecord.status = "completed"
       THEN [store |-> idempotencyCheck.store, invoke |-> FALSE,
             response |-> [success |-> TRUE,
                           result |-> idempotencyCheck.existingRecord.result,
                           fromCache |-> TRUE, error |-> ""]]
       ELSE IF ~idempotencyCheck.canProceed
       THEN [store |-> idempotencyCheck.store, invoke |-> FALSE,
             response |-> [success |-> FALSE, result |-> NoResult,
                           fromCache |-> FALSE, error |-> idempotencyCheck.reason]]
       ELSE [store |-> StoreAction(idempotencyCheck.store, t, actionId, customerId),
             invoke |-> TRUE,
             response |-> [success |-> FALSE, result |-> NoResult,
                           fromCache |-> FALSE, error |-> "in flight"]]

(* a bug: success is reported only if markCompleted found the record *)
ExecuteResolvedChecked(st, actionId, customerId, result) ==
    LET marked == MarkCompleted(st, actionId, customerId, result)
    IN [store |-> marked.store,
        response |-> IF marked.ok
                     THEN [success |-> TRUE, result |-> result, fromCache |-> FALSE,
                           error |-> ""]
                     ELSE [success |-> FALSE, result |-> NoResult, fromCache |-> FALSE,
                           error |-> "Idempotency execution failed"]]

(* executeWithIdempotency after the action settled (lines 693-711):        *)
(* [store, response]                                                        *)
ExecuteResolved(st, actionId, customerId, result) ==
    [store |-> MarkCompleted(st, actionId, customerId, result).store,
     response |-> [success |-> TRUE, result |-> result, fromCache |-> FALSE, error |-> ""]]

ExecuteRejected(st, actionId, customerId, errorMessage) ==
    [store |-> MarkFailed(st, actionId, customerId, errorMessage).store,
     response |-> [success |-> FALSE, result |-> NoResult, fromCache |-> FALSE,
                   error |-> errorMessage]]

(* A caller enters executeWithIdempotency *)
ExecStart(p) ==
    /\ Len(calls) < MaxCalls
    /\ LET key == KeyOf(p)
           b == ExecuteBegin(store, now, p.actionId, p.customerId)
           live == store[key].status # "absent" /\ ~IsExpired(store[key], now)
       IN /\ store' = b.store
          /\ calls' = Append(calls,
                [pair |-> p, key |-> key,
                 pc |-> IF b.invoke THEN "running" ELSE "returned",
                 ranAction |-> b.invoke,
                 overlapped |-> Running(key) # {},
                 seenOk |-> IF live THEN okCount[key] ELSE 0,
                 response |-> b.response])
          /\ okCount' = IF b.invoke THEN [Windowed(okCount, b.store) EXCEPT ![key] = 0]
                        ELSE Windowed(okCount, b.store)
    /\ UNCHANGED <<ledgerConfig, now, staleFlight, lastApi, brokerVars, utilVars>>

(* The action of call c returns its value, Value(c) *)
ActionResolves(c) ==
    /\ c \in 1..Len(calls)
    /\ calls[c].pc = "running"
    /\ LET p == calls[c].pair
           key == calls[c].key
           e == ExecuteResolved(store, p.actionId, p.customerId, Value(c))
           live == store[key].status # "absent" /\ ~IsExpired(store[key], now)
       IN /\ store' = e.store
          /\ calls' = [calls EXCEPT ![c].pc = "returned", ![c].response = e.response]
          /\ okCount' = IF live THEN [okCount EXCEPT ![key] = @ + 1] ELSE okCount
    /\ UNCHANGED <<ledgerConfig, now, staleFlight, lastApi, brokerVars, utilVars>>

(* The action of call c throws *)
ActionRejects(c) ==
    /\ c \in 1..Len(calls)
    /\ calls[c].pc = "running"
    /\ LET p == calls[c].pair
           e == ExecuteRejected(store, p.actionId, p.customerId, "action failed")
       IN /\ store' = e.store
          /\ calls' = [calls EXCEPT ![c].pc = "returned", ![c].response = e.response]
    /\ UNCHANGED <<ledgerConfig, now, okCount, staleFlight, lastApi, brokerVars, utilVars>>

(* Time passes *)
Tick ==
    /\ now < MaxTime
    /\ now' = now + 1
    /\ staleFlight' = [k \in StoreKeys |->
            staleFlight[k] \/ (Running(k) # {} /\ store[k].status # "absent"
                               /\ IsExpired(store[k], now + 1))]
    /\ lastApi' = NoApi
    /\ UNCHANGED <<store, ledgerConfig, calls, okCount, brokerVars, utilVars>>

(* The setInterval callback of startCleanupTimer *)
Sweep ==
    /\ store' = CleanupExpiredRecords(store, now)
    /\ okCount' = Windowed(okCount, store')
    /\ lastApi' = NoApi
    /\ UNCHANGED <<ledgerConfig, now, calls, staleFlight, brokerVars, utilVars>>

(* Direct calls of the public methods *)
ApiCheck(p) ==
    LET r == CheckIdempotency(store, now, p.actionId, p.customerId)
    IN /\ store' = r.store
       /\ okCount' = Windowed(okCount, r.store)
       /\ lastApi' = [NoApi EXCEPT !.op = "check", !.pair = p,
                                   !.pre = store[KeyOf(p)],
                                   !.ok = r.canProceed, !.rec = r.existingRecord,
                                   !.reason = r.reason]
       /\ UNCHANGED <<ledgerConfig, now, calls, staleFlight, brokerVars, utilVars>>

ApiStore(p) ==
    LET st == StoreAction(store, now, p.actionId, p.customerId)
    IN /\ store' = st
       /\ okCount' = [okCount EXCEPT ![KeyOf(p)] = 0]
       /\ lastApi' = [NoApi EXCEPT !.op = "store", !.pair = p,
                                   !.pre = store[KeyOf(p)],
                                   !.ok = TRUE, !.rec = st[KeyOf(p)]]
       /\ UNCHANGED <<ledgerConfig, now, calls, staleFlight, brokerVars, utilVars>>

ApiMarkCompleted(p, result) ==
    LET r == MarkCompleted(store, p.actionId, p.customerId, result)
    IN /\ store' = r.store
       /\ lastApi' = [NoApi EXCEPT !.op = "complete", !.pair = p,
                                   !.arg = result,
                                   !.pre = store[KeyOf(p)],
                                   !.ok = r.ok]
       /\ UNCHANGED <<ledgerConfig, now, calls, okCount, staleFlight, brokerVars, utilVars>>

ApiMarkFailed(p) ==
    LET r == MarkFailed(store, p.actionId, p.customerId, "action failed")
    IN /\ store[KeyOf(p)].retryCount < MaxRetryCount
       /\ store' = r.store
       /\ lastApi' = [NoApi EXCEPT !.op = "fail", !.pair = p,
                                   !.pre = store[KeyOf(p)],
                                   !.ok = r.ok]
       /\ UNCHANGED <<ledgerConfig, now, calls, okCount, staleFlight, brokerVars, utilVars>>

ApiRemove(p) ==
    LET r == RemoveAction(store, p.actionId, p.customerId)
    IN /\ store' = r.store
       /\ okCount' = Windowed(okCount, r.store)
       /\ lastApi' = [NoApi EXCEPT !.op = "remove", !.pair = p,
                                   !.pre = store[KeyOf(p)],
                                   !.ok = r.deleted]
       /\ UNCHANGED <<ledgerConfig, now, calls, staleFlight, brokerVars, utilVars>>

ResultChoices == {Value(1), Value(2)}

ExecNext ==
    \/ \E p \in Pairs : ExecStart(p)
    \/ \E c \in 1..Len(calls) : ActionResolves(c)
    \/ \E c \in 1..Len(calls) : ActionRejects(c)
    \/ Tick
    \/ Sweep

LedgerNext ==
    \/ \E p \in Pairs : ApiCheck(p)
    \/ \E p \in Pairs : ApiStore(p)
    \/ \E p \in Pairs, r \in ResultChoices : ApiMarkCompleted(p, r)
    \/ \E p \in Pairs : ApiMarkFailed(p)
    \/ \E p \in Pairs : ApiRemove(p)
    \/ Tick
    \/ Sweep

-----------------------------------------------------------------------------
(* RateLimiter *)

(* channelLimits of checkChannelLimit (cleanup.ts:623-628) *)
ChannelLimits ==
    [whatsapp |-> [windowMs |-> 60000, maxRequests |-> 30],
     telegram |-> [windowMs |-> 60000, maxRequests |-> 50],
     email |-> [windowMs |-> 300000, maxRequests |-> 10],
     web |-> [windowMs |-> 60000, maxRequests |-> 100]]

(* The channels callers name: two of the table and one it lacks *)
Channels == {"whatsapp", "email", "sms"}

UserIds == {"u"}

(* `${channel}:${userId}` *)
ChannelIdentifier(channel, userId) == <<channel, ":", userId>>

LimiterIdentifiers ==
    {<<u>> : u \in UserIds} \cup
    {ChannelIdentifier(ch, u) : ch \in Channels, u \in UserIds}

(* RateLimiter.generateKey: `ratelimit:${identifier}` *)
RateLimitKey(identifier) == <<"ratelimit:">> \o identifier

LimiterKeys == {RateLimitKey(i) : i \in LimiterIdentifiers}

NoEntry == [count |-> 0, resetTime |-> 0]

(* `new Map<string, RateLimitEntry>()` *)
EmptyLimiterStore == [k \in LimiterKeys |-> NoEntry]

(* new RateLimiter(config): the fields of the new instance *)
NewRateLimiter(cfg) == [store |-> EmptyLimiterStore, config |-> cfg]

(* Math.ceil(ms / 1000) for ms >= 0 *)
CeilSeconds(ms) == (ms + 999) \div 1000

NoLimitResult == [allowed |-> FALSE, remaining |-> 0, resetTime |-> 0, retryAfter |-> 0]

(* checkLimit on a limiter with store st and configuration cfg at time t:  *)
(* [store, result]; retryAfter is 0 where the source leaves it undefined   *)
CheckLimit(st, cfg, t, identifier) ==
    LET key == RateLimitKey(identifier)
        entry == st[key]
    IN IF entry = NoEntry \/ t >= entry.resetTime
       THEN [store |-> [st EXCEPT ![key] = [count |-> 1, resetTime |-> t + cfg.windowMs]],
             result |-> [allowed |-> TRUE, remaining |-> cfg.maxRequests - 1,
                         resetTime |-> t + cfg.windowMs, retryAfter |-> 0]]
       ELSE IF entry.count >= cfg.maxRequests
       THEN [store |-> st,
             result |-> [allowed |-> FALSE, remaining |-> 0,
                         resetTime |-> entry.resetTime,
                         retryAfter |-> CeilSeconds(entry.resetTime - t)]]
       ELSE [store |-> [st EXCEPT ![key].count = @ + 1],
             result |-> [allowed |-> TRUE,
                         remaining |-> cfg.maxRequests - (entry.count + 1),
                         resetTime |-> entry.resetTime, retryAfter |-> 0]]

(* RateLimiter.cleanup: the store afterwards *)
LimiterCleanupStore(st, t) ==
    [k \in LimiterKeys |-> IF st[k] # NoEntry /\ t >= st[k].resetTime THEN NoEntry ELSE st[k]]

NoWindow == [start |-> 0, granted |-> 0]

(* the window of a channel's user after a check at time t: a window begins *)
(* with the first check and with the first check after windowMs has passed *)
WindowAfter(w, windowMs, t, allowed) ==
    IF w.granted = 0 \/ t >= w.start + windowMs
    THEN [start |-> t, granted |-> IF allowed THEN 1 ELSE 0]
    ELSE [w EXCEPT !.granted = IF allowed THEN @ + 1 ELSE @]

(* the exported limiter as constructed (cleanup.ts:553-567, 866), with the *)
(* defaults of the environment                                              *)
LimiterInit ==
    /\ limiterStore = EmptyLimiterStore
    /\ limiterConfig = [windowMs |-> 60000, maxRequests |-> 100]
    /\ clock = 0
    /\ intervals = 1
    /\ checks = 0
    /\ window = [ch \in Channels |-> NoWindow]
    /\ lastLimit = NoLimitResult

(* rateLimiter.checkLimit(identifier) *)
CheckLimitCall(identifier) ==
    /\ checks < MaxChecks
    /\ LET r == CheckLimit(limiterStore, limiterConfig, clock, identifier)
       IN /\ limiterStore' = r.store
          /\ lastLimit' = r.result
    /\ checks' = checks + 1
    /\ UNCHANGED <<limiterConfig, clock, intervals, window, cleanupVars, brokerVars, ledgerVars>>

(* rateLimiter.checkChannelLimit(channel, userId) *)
CheckChannelLimit(channel, userId) ==
    /\ checks < MaxChecks
    /\ LET channelConfig == IF channel \in DOMAIN ChannelLimits
                            THEN ChannelLimits[channel] ELSE limiterConfig
           tempLimiter == NewRateLimiter(channelConfig)
           r == CheckLimit(tempLimiter.store, tempLimiter.config, clock,
                           ChannelIdentifier(channel, userId))
       IN /\ lastLimit' = r.result
          /\ window' = [window EXCEPT ![channel] =
                            WindowAfter(@, channelConfig.windowMs, clock, r.result.allowed)]
    /\ intervals' = intervals + 1
    /\ checks' = checks + 1
    /\ UNCHANGED <<limiterStore, limiterConfig, clock, cleanupVars, brokerVars, ledgerVars>>

(* The setInterval callback of the exported limiter's constructor *)
LimiterCleanup ==
    /\ limiterStore' = LimiterCleanupStore(limiterStore, clock)
    /\ UNCHANGED <<limiterConfig, clock, intervals, checks, window, lastLimit,
                   cleanupVars, brokerVars, ledgerVars>>

(* A minute passes *)
LimiterTick ==
    /\ clock < MaxMinutes * 60000
    /\ clock' = clock + 60000
    /\ UNCHANGED <<limiterStore, limiterConfig, intervals, checks, window, lastLimit,
                   cleanupVars, brokerVars, ledgerVars>>

LimiterNext ==
    \/ \E u \in UserIds : CheckLimitCall(<<u>>)
    \/ \E ch \in Channels, u \in UserIds : CheckChannelLimit(ch, u)
    \/ LimiterCleanup
    \/ LimiterTick

-----------------------------------------------------------------------------
(* DataCleanupManager *)

(* the data types of initializeDefaultPolicies, in the Map's order *)
DataTypes ==
    <<"raw_messages", "processed_messages", "attachments", "ai_responses",
      "audit_logs", "customer_sessions", "rate_limit_records", "idempotency_records">>

(* A CleanupResult, of which the model keeps the dataType: the counts, the *)
(* errors and the executionTime play no part in runFullCleanup              *)
ResultFor(dataType) == [dataType |-> dataType]

NoRun == [how |-> "none", results |-> <<>>]

(* the manager as constructed (cleanup.ts:35-42) *)
CleanupInit ==
    /\ cleanupHistory = <<>>
    /\ isRunning = FALSE
    /\ passes = <<>>
    /\ started = 0
    /\ thrown = 0
    /\ lastRun = NoRun

(* a bug: the isRunning test of lines 153-156 is missing *)
RunFullCleanupUnguarded ==
    /\ started < MaxStarted
    /\ started' = started + 1
    /\ isRunning' = TRUE
    /\ passes' = Append(passes, [pc |-> "cleaning", index |-> 1, results |-> <<>>])
    /\ UNCHANGED <<cleanupHistory, thrown, lastRun, limiterVars, brokerVars, ledgerVars>>

(* runFullCleanup is called (by the daily job, by runDeepCleanup, by        *)
(* triggerManualCleanup) and runs up to its first await: it returns [] if   *)
(* a pass is running, else sets isRunning and calls cleanupDataType on the  *)
(* first data type.  What runDeepCleanup does after the pass touches none   *)
(* of these fields.                                                         *)
RunFullCleanup ==
    /\ started < MaxStarted
    /\ started' = started + 1
    /\ IF isRunning
       THEN /\ lastRun' = [how |-> "skipped", results |-> <<>>]
            /\ UNCHANGED <<isRunning, passes>>
       ELSE /\ isRunning' = TRUE
            /\ passes' = Append(passes, [pc |-> "cleaning", index |-> 1, results |-> <<>>])
            /\ UNCHANGED lastRun
    /\ UNCHANGED <<cleanupHistory, thrown, limiterVars, brokerVars, ledgerVars>>

(* lines 188-190: `if (length > 100) cleanupHistory = cleanupHistory.slice(-100)` *)
KeepLast(history) ==
    IF Len(history) > HistoryLimit
    THEN SubSeq(history, Len(history) - HistoryLimit + 1, Len(history))
    ELSE history

(* pass i goes on after data type number passes[i].index, its results now   *)
(* being results: the next cleanupDataType call, or past the loop the       *)
(* history update, the return and the finally block (lines 184-200)         *)
PassGoesOn(i, results) ==
    IF passes[i].index < Len(DataTypes)
    THEN /\ passes' = [passes EXCEPT ![i] = [pc |-> "cleaning", index |-> @.index + 1,
                                             results |-> results]]
         /\ UNCHANGED <<cleanupHistory, isRunning, lastRun>>
    ELSE /\ cleanupHistory' = KeepLast(cleanupHistory \o results)
         /\ lastRun' = [how |-> "returned", results |-> results]
         /\ isRunning' = FALSE
         /\ passes' = RemoveAt(passes, i)

(* `await this.cleanupDataType(dataType, policy)` returns its result; the   *)
(* pass pushes it and sleeps                                                *)
CleanupReturns(i) ==
    /\ i \in 1..Len(passes)
    /\ passes[i].pc = "cleaning"
    /\ passes' = [passes EXCEPT ![i].pc = "sleeping",
                                ![i].results = Append(@, ResultFor(DataTypes[passes[i].index]))]
    /\ UNCHANGED <<cleanupHistory, isRunning, started, thrown, lastRun,
                   limiterVars, brokerVars, ledgerVars>>

(* `await this.cleanupDataType(dataType, policy)` throws; the catch block   *)
(* pushes an error result and the loop goes on without sleeping             *)
CleanupThrows(i) ==
    /\ i \in 1..Len(passes)
    /\ passes[i].pc = "cleaning"
    /\ thrown < MaxThrown
    /\ thrown' = thrown + 1
    /\ PassGoesOn(i, Append(passes[i].results, ResultFor(DataTypes[passes[i].index])))
    /\ UNCHANGED <<started, limiterVars, brokerVars, ledgerVars>>

(* `await this.sleep(1000)` is over *)
SleepEnds(i) ==
    /\ i \in 1..Len(passes)
    /\ passes[i].pc = "sleeping"
    /\ PassGoesOn(i, passes[i].results)
    /\ UNCHANGED <<started, thrown, limiterVars, brokerVars, ledgerVars>>

CleanupNext ==
    \/ RunFullCleanup
    \/ \E i \in 1..Len(passes) : CleanupReturns(i)
    \/ \E i \in 1..Len(passes) : CleanupThrows(i)
    \/ \E i \in 1..Len(passes) : SleepEnds(i)

UtilAtRest == LimiterInit /\ CleanupInit

-----------------------------------------------------------------------------
(* Specifications *)

(* A broker nobody has touched, and a ledger likewise *)
BrokerAtRest ==
    BrokerStart({[maxRetries |-> 3, retryDelay |-> 1000, deadLetterQueueSize |-> 1000]})

LedgerAtRest ==
    /\ LedgerInit
    /\ ledgerConfig = [ttlMs |-> 1, maxRetries |-> 0]

Init == BrokerInit /\ LedgerAtRest /\ UtilAtRest

(* The broker under every handler behaviour *)
Spec == Init /\ [][BrokerNext]_vars

(* The same with the event loop's guarantees: a settled handler promise,   *)
(* a resumed loop and a due timer each run eventually; publishes and       *)
(* requeues are up to the callers.                                         *)
BrokerFairness ==
    /\ WF_vars(\E i \in 1..Len(loops) : HandlerSucceeds(i))
    /\ WF_vars(\E i \in 1..Len(loops) : HandlerFails(i))
    /\ WF_vars(\E i \in 1..Len(loops) : LoopResumes(i))
    /\ WF_vars(\E t \in timers : RetryTimerFires(t))

FairSpec == Init /\ [][BrokerNext]_vars /\ BrokerFairness

(* The broker with the handler of the source, which never throws, under    *)
(* every configuration                                                      *)
SucceedConfigs ==
    [maxRetries : 0..3, retryDelay : {500, 1000}, deadLetterQueueSize : 1..2]

SucceedInit == BrokerStart(SucceedConfigs) /\ LedgerAtRest /\ UtilAtRest

SucceedNext ==
    \/ PublishMessage([always |-> FALSE, k |-> 0])
    \/ \E i \in 1..Len(loops) : HandlerSucceeds(i)

SucceedSpec ==
    SucceedInit /\ [][SucceedNext]_vars /\ WF_vars(\E i \in 1..Len(loops) : HandlerSucceeds(i))

(* The broker with its default configuration (maxRetries 3, retryDelay     *)
(* 1000 ms) and a handler that throws on every delivery                     *)
BackoffInit == BrokerAtRest /\ LedgerAtRest /\ UtilAtRest

BackoffNext ==
    \/ PublishMessage([always |-> TRUE, k |-> 0])
    \/ \E i \in 1..Len(loops) : HandlerFails(i)
    \/ \E i \in 1..Len(loops) : LoopResumes(i)
    \/ \E t \in timers : RetryTimerFires(t)
    \/ \E id \in MsgIds : RetryDeadLetterMessage(id)

BackoffSpec == BackoffInit /\ [][BackoffNext]_vars

LedgerStart == BrokerAtRest /\ LedgerInit /\ UtilAtRest

(* The ledger driven through executeWithIdempotency only *)
ExecSpec == LedgerStart /\ [][ExecNext]_vars

(* The ledger driven through its public methods *)
LedgerSpec == LedgerStart /\ [][LedgerNext]_vars

(* Both constructors keep whatever configuration they are handed          *)
(* (messageBroker.ts:32, encryption.ts:359-364): a broker and a ledger     *)
(* constructed with configurations outside the documented ranges           *)
UncheckedBrokerConfigs ==
    {[maxRetries |-> -1, retryDelay |-> 1000, deadLetterQueueSize |-> 1],
     [maxRetries |-> 1, retryDelay |-> 1000, deadLetterQueueSize |-> 0]}

UncheckedLedgerConfigs == {[ttlMs |-> 1, maxRetries |-> -1]}

UncheckedInit ==
    /\ BrokerStart(UncheckedBrokerConfigs)
    /\ store = [k \in StoreKeys |-> NoRecord]
    /\ ledgerConfig \in UncheckedLedgerConfigs
    /\ now = 0
    /\ calls = <<>>
    /\ okCount = [k \in StoreKeys |-> 0]
    /\ staleFlight = [k \in StoreKeys |-> FALSE]
    /\ lastApi = NoApi
    /\ UtilAtRest

UncheckedNext ==
    \/ PublishMessage([always |-> TRUE, k |-> 0])
    \/ \E i \in 1..Len(loops) : HandlerFails(i)
    \/ \E i \in 1..Len(loops) : LoopResumes(i)
    \/ \E t \in timers : RetryTimerFires(t)
    \/ \E id \in MsgIds : RetryDeadLetterMessage(id)
    \/ \E p \in Pairs : ApiStore(p)
    \/ \E p \in Pairs : ApiMarkFailed(p)
    \/ \E p \in Pairs : ApiCheck(p)

UncheckedSpec == UncheckedInit /\ [][UncheckedNext]_vars

(* The ledger's public methods called with identifiers that contain the   *)
(* separator of generateKey                                                 *)
AnyPairNext ==
    \/ \E p \in AllPairs : ApiCheck(p)
    \/ \E p \in AllPairs : ApiStore(p)
    \/ \E p \in AllPairs, r \in ResultChoices : ApiMarkCompleted(p, r)
    \/ \E p \in AllPairs : ApiMarkFailed(p)
    \/ \E p \in AllPairs : ApiRemove(p)

AnyPairSpec == LedgerStart /\ [][AnyPairNext]_vars

(* removeAction called while executeWithIdempotency calls are under way *)
RemoveDuringFlight(p) ==
    /\ store' = RemoveAction(store, p.actionId, p.customerId).store
    /\ okCount' = Windowed(okCount, store')
    /\ lastApi' = NoApi
    /\ UNCHANGED <<ledgerConfig, now, calls, staleFlight, brokerVars, utilVars>>

ExecRemoveNext ==
    \/ \E p \in Pairs : ExecStart(p)
    \/ \E c \in 1..Len(calls) : ActionResolves(c)
    \/ \E c \in 1..Len(calls) : ActionRejects(c)
    \/ Tick
    \/ Sweep
    \/ \E p \in Pairs : RemoveDuringFlight(p)

ExecRemoveInit ==
    /\ BrokerAtRest
    /\ LedgerInit
    /\ ledgerConfig = [ttlMs |-> 1, maxRetries |-> 1]
    /\ UtilAtRest

ExecRemoveSpec == ExecRemoveInit /\ [][ExecRemoveNext]_vars

(* The two utilities as constructed, broker and ledger untouched *)
UtilStart == BrokerAtRest /\ LedgerAtRest /\ UtilAtRest

(* The rate limiter alone *)
LimiterSpec == UtilStart /\ [][LimiterNext]_vars

(* The cleanup manager alone *)
CleanupSpec == UtilStart /\ [][CleanupNext]_vars

-----------------------------------------------------------------------------
(* Claims about the message broker *)

InFlight == {loops[i].msg.id : i \in {j \in 1..Len(loops) : loops[j].pc = "handling"}}

Published == 1..(nextId - 1)

(* the retry counts 0, 1, ..., n-1 *)
CountingUp(n) == [i \in 1..n |-> i - 1]

(* C3: after a single message whose handler always throws is published,    *)
(* and unless something else is published or requeued, the message is      *)
(* eventually in the dead-letter queue, delivered maxRetries + 1 times,     *)
(* with no active message left.                                             *)
C3_AlwaysFailingReachesDeadLetter ==
    [](nextId = 2 /\ requeues = 0 /\ plan[1].always
        => <>(\/ nextId > 2
              \/ requeues > 0
              \/ /\ 1 \in IdsOf(deadLetterQueue)
                 /\ Len(deliveryLog[1]) = config.maxRetries + 1
                 /\ GetQueueStats.activeMessages = 0))

(* C4: after a single message whose handler throws k < maxRetries times    *)
(* and then succeeds is published, and unless something else is published  *)
(* or requeued, the message is eventually processed, having been seen with *)
(* retry counts 0..k; it is never dead-lettered.                            *)
C4_RecoversWithinBudget ==
    /\ [](nextId = 2 /\ requeues = 0 /\ ~plan[1].always /\ plan[1].k < config.maxRetries
            => <>(\/ nextId > 2
                  \/ requeues > 0
                  \/ /\ deliveryLog[1] = CountingUp(plan[1].k + 1)
                     /\ 1 \notin InFlight))
    /\ [](\A m \in Published :
            ~plan[m].always /\ plan[m].k < config.maxRetries
            => /\ m \notin IdsOf(deadLetterQueue)
               /\ deliveryLog[m] = CountingUp(Len(deliveryLog[m])))

NeverThrows(m) == ~plan[m].always /\ plan[m].k = 0

(* C5: with a handler that always succeeds, however the publishes are      *)
(* spread over the dispatcher's progress, the broker again and again       *)
(* comes to rest idle with an empty queue, having delivered every message  *)
(* published so far exactly once, in publish order.                        *)
C5_AllDeliveredOnceInOrder ==
    []<>(/\ GetQueueStats.activeMessages = 0
         /\ ~GetQueueStats.isProcessing
         /\ deliveryOrder = [i \in 1..(nextId - 1) |-> i]
         /\ \A m \in Published : deliveryLog[m] = <<0>>)

C5_Witness ==
    /\ \A m \in Published : NeverThrows(m)
    /\ nextId = MaxMsgs + 1
    /\ GetQueueStats.activeMessages = 0
    /\ ~GetQueueStats.isProcessing
    /\ Len(deliveryOrder) = MaxMsgs

(* C6: whenever the dispatcher is idle the queue is empty *)
C6_IdleImpliesEmptyQueue ==
    ~GetQueueStats.isProcessing => GetQueueStats.activeMessages = 0

(* C7: there is never more than one activation of processQueue nor more    *)
(* than one handler invocation in flight, and an activation starts only    *)
(* in a state where processing is false.                                   *)
C7_SingleDispatcher ==
    /\ [](/\ Len(loops) <= 1
          /\ Cardinality({i \in 1..Len(loops) : loops[i].pc = "handling"}) <= 1
          /\ processing <=> Len(loops) = 1)
    /\ [][Len(loops') > Len(loops) => ~processing]_vars

C7_Witness ==
    /\ Len(loops) = 1
    /\ nextId > 2
    /\ requeues > 0
    /\ timers # {}
    /\ Len(messageQueue) > 0

(* the retries of m ran out and it was dead-lettered, but it is no longer  *)
(* in the dead-letter queue although nobody requeued anything              *)
Evicted(m) ==
    /\ plan[m].always
    /\ requeues = 0
    /\ Len(deliveryLog[m]) = config.maxRetries + 1
    /\ m \notin InFlight
    /\ m \notin IdsOf(deadLetterQueue)

(* C8: the dead-letter queue never holds more than deadLetterQueueSize     *)
(* entries (a size of at least 1); a step that dead-letters a message      *)
(* while it holds that many drops exactly its first entry and appends the  *)
(* message, and otherwise just appends it.                                 *)
C8_DeadLetterBounded ==
    /\ [](config.deadLetterQueueSize >= 1
            => Len(deadLetterQueue) <= config.deadLetterQueueSize)
    /\ [][\A i \in 1..Len(loops) :
            /\ config.deadLetterQueueSize >= 1
            /\ loops[i].pc = "handling"
            /\ i \in 1..Len(loops') /\ loops'[i].pc = "failed"
            /\ timers' = timers
            => deadLetterQueue' =
                 IF Len(deadLetterQueue) = config.deadLetterQueueSize
                 THEN Append(Tail(deadLetterQueue), loops[i].msg)
                 ELSE Append(deadLetterQueue, loops[i].msg)]_vars

C8_Witness ==
    /\ config.deadLetterQueueSize = 2
    /\ Len(deadLetterQueue) = 2
    /\ \E m \in Published : Evicted(m)

(* What the loop started by a requeue took out of the queue at once *)
TakenBy(r, ls) ==
    IF Len(r.loops) > Len(ls) THEN <<r.loops[Len(r.loops)].msg>> ELSE <<>>

(* C9: in every reachable state and for every id, retryDeadLetterMessage   *)
(* returns true exactly if an entry with that id is in the dead-letter     *)
(* queue.  Then that entry is gone from it, the other entries keep their   *)
(* order, the message is appended to the queue with retryCount 0 (the loop *)
(* the call starts may take the head of the queue at once), processing is  *)
(* true, and the same call made again returns false.  Otherwise the queue  *)
(* and the dead-letter queue are unchanged.                                *)
C9_RequeueContract ==
    \A id \in MsgIds :
        LET r == Requeue(deadLetterQueue, processing, messageQueue, loops,
                         <<deliveryLog, deliveryOrder>>, id)
            again == Requeue(r.deadLetterQueue, r.processing, r.queue, r.loops, r.log, id)
        IN /\ r.found <=> id \in IdsOf(deadLetterQueue)
           /\ r.found =>
                /\ r.deadLetterQueue = SelectSeq(deadLetterQueue, LAMBDA e : e.id # id)
                /\ Len(r.deadLetterQueue) = Len(deadLetterQueue) - 1
                /\ TakenBy(r, loops) \o r.queue
                     = Append(messageQueue, [id |-> id, retryCount |-> 0])
                /\ r.processing
                /\ Len(r.loops) = 1
                /\ ~again.found
           /\ ~r.found =>
                /\ r.queue = messageQueue
                /\ r.deadLetterQueue = deadLetterQueue

C9_Witness ==
    /\ requeues > 0
    /\ Len(messageQueue) > 1
    /\ messageQueue[Len(messageQueue)].retryCount = 0
    /\ deliveryLog[messageQueue[Len(messageQueue)].id] # <<>>

(* first deliveries happen in publish order *)
FirstDeliveriesInPublishOrder ==
    \A i, j \in 1..Len(deliveryOrder) : i < j => deliveryOrder[i] < deliveryOrder[j]

Retried(i) == messageQueue[i].retryCount > 0

(* C17, as claimed: first deliveries happen in publish order, and while a  *)
(* handler runs a retried message waiting in the queue is at its head,     *)
(* the next to be delivered.                                                *)
C17_RetryIsNextDelivered ==
    /\ FirstDeliveriesInPublishOrder
    /\ InFlight # {} => \A i \in 1..Len(messageQueue) : Retried(i) => i = 1

(* C17, amended: first deliveries happen in publish order; the step in     *)
(* which a retry delay elapses puts the message at the head of the queue   *)
(* and keeps the rest as it was; the retried messages waiting in the       *)
(* queue are ahead of all the others, a later retry ahead of an earlier    *)
(* one.                                                                     *)
C17_RetriesAheadOfOthers ==
    /\ [](/\ FirstDeliveriesInPublishOrder
          /\ \A i, j \in 1..Len(messageQueue) : i < j /\ Retried(j) => Retried(i))
    /\ [][\A t \in timers :
            RetryTimerFires(t)
            => messageQueue' = <<[id |-> t.msg.id, retryCount |-> t.retryCount]>>
                                \o messageQueue]_vars

(* two retried messages wait while a handler runs, the later one first *)
C17_Witness ==
    /\ Len(messageQueue) = 2
    /\ Retried(1) /\ Retried(2)
    /\ messageQueue[1].id > messageQueue[2].id
    /\ InFlight # {}

Last(seq) == seq[Len(seq)]

(* C18: every scheduled retry is the k-th retry of its message for some k  *)
(* in 1..maxRetries, k being one more than the retryCount of the delivery  *)
(* that failed, and its delay is retryDelay * 2^(k-1); with maxRetries 3   *)
(* and retryDelay 1000 the delays of the retries 1, 2, 3 are 1000, 2000,   *)
(* 4000.                                                                    *)
C18_ExponentialBackoff ==
    \A t \in timers :
        /\ t.retryCount \in 1..config.maxRetries
        /\ t.retryCount = Last(deliveryLog[t.msg.id]) + 1
        /\ t.delay = config.retryDelay * 2^(t.retryCount - 1)
        /\ config.maxRetries = 3 /\ config.retryDelay = 1000
            => t.delay = <<1000, 2000, 4000>>[t.retryCount]

C18_Witness ==
    /\ config.maxRetries = 3 /\ config.retryDelay = 1000
    /\ \E t \in timers : t.retryCount = 3 /\ t.delay = 4000
    /\ \E t \in timers : t.retryCount = 1 /\ t.delay = 1000

(* the deliveries of a message since its publish or its latest requeue:   *)
(* the part of its log from the last retryCount 0 on                        *)
SinceReset(log) ==
    IF log = <<>> THEN <<>>
    ELSE LET start == CHOOSE i \in 1..Len(log) :
                        log[i] = 0 /\ \A j \in (i + 1)..Len(log) : log[j] # 0
         IN SubSeq(log, start, Len(log))

(* C19: since its publish or latest requeue a message has been delivered   *)
(* at most maxRetries + 1 times, with retry counts 0, 1, 2, ...; a failure *)
(* dead-letters the message exactly if its retryCount plus one exceeds     *)
(* maxRetries, and then schedules no retry; otherwise it schedules one     *)
(* retry and leaves the dead-letter queue alone.                            *)
C19_RetryBudget ==
    /\ [](/\ \A m \in Published :
               /\ Len(SinceReset(deliveryLog[m])) <= config.maxRetries + 1
               /\ SinceReset(deliveryLog[m]) = CountingUp(Len(SinceReset(deliveryLog[m])))
          /\ \A i \in 1..Len(deadLetterQueue) :
               deadLetterQueue[i].retryCount = config.maxRetries)
    /\ [][\A i \in 1..Len(loops) :
            HandlerFails(i)
            => IF loops[i].msg.retryCount + 1 > config.maxRetries
               THEN /\ timers' = timers
                    /\ Len(deadLetterQueue') > 0
                    /\ Last(deadLetterQueue') = loops[i].msg
               ELSE /\ deadLetterQueue' = deadLetterQueue
                    /\ Cardinality(timers') = Cardinality(timers) + 1
                    /\ \E t \in timers' \ timers : t.msg = loops[i].msg]_vars

(* a message went through its whole budget, was requeued, went through it  *)
(* again and is back in the dead-letter queue                               *)
C19_Witness ==
    \E m \in Published :
        /\ config.maxRetries >= 1
        /\ m \in IdsOf(deadLetterQueue)
        /\ Len(deliveryLog[m]) = 2 * (config.maxRetries + 1)
        /\ Len(SinceReset(deliveryLog[m])) = config.maxRetries + 1

(* the number of places message m is in: waiting in the queue, being      *)
(* handled, awaiting a scheduled retry, in the dead-letter queue            *)
PlacesIn(q, ls, ts, dlq, m) ==
    Cardinality({i \in 1..Len(q) : q[i].id = m})
    + Cardinality({i \in 1..Len(ls) : ls[i].pc = "handling" /\ ls[i].msg.id = m})
    + Cardinality({t \in ts : t.msg.id = m})
    + Cardinality({i \in 1..Len(dlq) : dlq[i].id = m})

Places(m) == PlacesIn(messageQueue, loops, timers, deadLetterQueue, m)

(* C20: every published message is in at most one place and an id not yet  *)
(* published is in none; a message leaves its place for none only when     *)
(* its handler returns normally or when it is the oldest entry of a full   *)
(* dead-letter queue and another message is dead-lettered.                 *)
C20_EachMessageInOnePlace ==
    /\ [](\A m \in MsgIds :
            /\ Places(m) <= 1
            /\ m \notin Published => Places(m) = 0
            /\ m \in Published /\ Places(m) = 0 => deliveryLog[m] # <<>>)
    /\ [][\A m \in Published :
            Places(m) = 1
            /\ PlacesIn(messageQueue', loops', timers', deadLetterQueue', m) = 0
            => \/ /\ m \in InFlight
                  /\ ~HandlerThrows(m, Len(deliveryLog[m]))
               \/ /\ Len(deadLetterQueue) >= config.deadLetterQueueSize
                  /\ Len(deadLetterQueue) > 0
                  /\ Head(deadLetterQueue).id = m
                  /\ Len(deadLetterQueue') > 0
                  /\ Last(deadLetterQueue').id \in InFlight]_vars

(* one message each waiting, being handled, awaiting its retry and         *)
(* dead-lettered is beyond three messages; here one message has finished,  *)
(* one awaits its retry and one is dead-lettered after a requeue           *)
C20_Witness ==
    /\ nextId = MaxMsgs + 1
    /\ \E a, b, c \in Published :
        /\ Places(a) = 0 /\ ~HandlerThrows(a, Len(deliveryLog[a]))
        /\ b \in {t.msg.id : t \in timers}
        /\ c \in IdsOf(deadLetterQueue)
    /\ requeues > 0

(* C21: the step in which a handler fails keeps the loop and processing   *)
(* as they are; the loop then goes on with the head of the queue if there  *)
(* is one; and a loop ends, setting processing to false, only when the     *)
(* queue is empty.                                                          *)
C21_FailureDoesNotStopLoop ==
    [][/\ \A i \in 1..Len(loops) :
            /\ HandlerFails(i) => Len(loops') = Len(loops) /\ processing'
            /\ LoopResumes(i) /\ messageQueue # <<>>
                 => /\ Len(loops') = Len(loops)
                    /\ loops'[i] = [pc |-> "handling", msg |-> Head(messageQueue)]
                    /\ messageQueue' = Tail(messageQueue)
                    /\ processing'
       /\ Len(loops') < Len(loops) \/ (processing /\ ~processing')
            => messageQueue = <<>> /\ messageQueue' = <<>>]_vars

(* message 1 failed and awaits its retry or is dead-lettered; the loop     *)
(* went on to 2, delivered it, and now handles 3                            *)
C21_Witness ==
    /\ requeues = 0
    /\ plan[1].always
    /\ deliveryLog[1] = <<0>> /\ deliveryLog[2] = <<0>>
    /\ InFlight = {3}
    /\ Places(1) = 1 /\ 1 \notin IdsOf(messageQueue)

(* C22: pending retries never hold the dispatcher up: a loop that has     *)
(* handled a failure can always go on, whatever retries are scheduled, and *)
(* going on it leaves the scheduled retries alone.                          *)
C22_RetryWaitDoesNotBlock ==
    /\ [](\A i \in 1..Len(loops) : loops[i].pc = "failed" => ENABLED LoopResumes(i))
    /\ [][\A i \in 1..Len(loops) : LoopResumes(i) => timers' = timers]_vars

(* message 1 still awaits its retry; message 2, published after 1 had      *)
(* failed, has been handled to the end and the dispatcher is idle           *)
C22_Witness ==
    /\ \E t \in timers : t.msg.id = 1
    /\ deliveryLog[1] = <<0>>
    /\ deliveryOrder = <<1, 2>>
    /\ deliveryLog[2] = <<0>>
    /\ Places(2) = 0
    /\ ~processing
    /\ messageQueue = <<>>

(* the documented ranges of the two configurations *)
ValidBrokerConfig(c) == c.maxRetries >= 0 /\ c.deadLetterQueueSize > 0
ValidLedgerConfig(c) == c.maxRetries >= 0

(* C23: an instance holding an invalid configuration (negative maxRetries, *)
(* dead-letter capacity <= 0, negative ledger max retries) never accepts a *)
(* publish, a requeue or a ledger operation, because its construction       *)
(* failed.                                                                  *)
C23_InvalidConfigNeverServes ==
    /\ ~ValidBrokerConfig(config) => nextId = 1 /\ requeues = 0
    /\ ~ValidLedgerConfig(ledgerConfig)
         => lastApi.op = "none" /\ \A k \in StoreKeys : store[k].status = "absent"

-----------------------------------------------------------------------------
(* Claims about the idempotency ledger *)

CallIds == 1..Len(calls)

InProgressRejection ==
    [success |-> FALSE, result |-> NoResult, fromCache |-> FALSE,
     error |-> "Action is still in progress"]

CachedFromEarlierCall(c) ==
    /\ ~calls[c].ranAction
    /\ calls[c].response.success
    /\ calls[c].response.fromCache
    /\ \E d \in 1..(c - 1) :
        /\ calls[d].key = calls[c].key
        /\ calls[d].ranAction
        /\ calls[d].pc = "returned"
        /\ calls[d].response.success
        /\ calls[d].response.result = calls[c].response.result

(* C2, as claimed: within the lifetime of one record the action completes  *)
(* successfully at most once, and a call made after a completion and       *)
(* before the record expires returns the cached result without invoking    *)
(* the action.                                                              *)
C2_OncePerWindow ==
    /\ \A k \in StoreKeys : okCount[k] <= 1
    /\ \A c \in CallIds : calls[c].seenOk >= 1 => CachedFromEarlierCall(c)

(* C2, amended: the same on every key none of whose records expired while  *)
(* a call was in flight.                                                    *)
C2_OncePerWindowWithoutStaleFlight ==
    /\ \A k \in StoreKeys : ~staleFlight[k] => okCount[k] <= 1
    /\ \A c \in CallIds :
        calls[c].seenOk >= 1 /\ ~staleFlight[calls[c].key] => CachedFromEarlierCall(c)

C2_Witness ==
    \E c \in CallIds :
        /\ calls[c].seenOk = 1
        /\ ~staleFlight[calls[c].key]
        /\ CachedFromEarlierCall(c)
        /\ now > 0

(* C10: a successful markCompleted leaves the record completed with the    *)
(* result given; checkIdempotency on a completed record that has not       *)
(* expired returns canProceed = false with that record and leaves it in    *)
(* the store; on a record whose expiresAt has passed it returns            *)
(* canProceed = true.                                                       *)
C10_CompletedUntilExpiry ==
    LET key == KeyOf(lastApi.pair)
    IN /\ lastApi.op = "complete" /\ lastApi.ok
            => /\ store[key].status = "completed"
               /\ store[key].result = lastApi.arg
       /\ lastApi.op = "check" /\ lastApi.pre.status = "completed"
                               /\ now <= lastApi.pre.expiresAt
            => /\ ~lastApi.ok
               /\ lastApi.rec = lastApi.pre
               /\ lastApi.rec.result.kind = "value"
               /\ store[key] = lastApi.pre
       /\ lastApi.op = "check" /\ lastApi.pre.status # "absent"
                               /\ now > lastApi.pre.expiresAt
            => lastApi.ok

C10_Witness ==
    /\ lastApi.op = "check"
    /\ lastApi.pre.status = "completed"
    /\ now = lastApi.pre.expiresAt
    /\ ~lastApi.ok
    /\ lastApi.rec.result = Value(2)

(* the latest step was a direct checkIdempotency that found a record with  *)
(* status s whose expiresAt has not passed                                  *)
CheckedUnexpired(s) ==
    /\ lastApi.op = "check"
    /\ lastApi.pre.status = s
    /\ now <= lastApi.pre.expiresAt

(* C11: checkIdempotency on an unexpired failed record refuses with the    *)
(* reason "Max retries exceeded" exactly if the record's retryCount has    *)
(* reached maxRetries, and lets the caller proceed exactly if it is below. *)
C11_FailedRetryBudget ==
    CheckedUnexpired("failed")
    => /\ ~lastApi.ok <=> lastApi.pre.retryCount >= ledgerConfig.maxRetries
       /\ lastApi.ok <=> lastApi.pre.retryCount < ledgerConfig.maxRetries
       /\ ~lastApi.ok => lastApi.reason = "Max retries exceeded" /\ lastApi.rec = lastApi.pre
       /\ lastApi.ok => lastApi.reason = ""

C11_Witness ==
    /\ CheckedUnexpired("failed")
    /\ lastApi.pre.retryCount = ledgerConfig.maxRetries
    /\ ledgerConfig.maxRetries > 0
    /\ ~lastApi.ok

C11_WitnessProceeds ==
    /\ CheckedUnexpired("failed")
    /\ lastApi.pre.retryCount < ledgerConfig.maxRetries
    /\ lastApi.ok

(* the call added by the step *)
NewCall == calls'[Len(calls')]

(* C12: a step in which a caller enters executeWithIdempotency and the     *)
(* check refuses leaves the store as it was and returns at once without    *)
(* invoking the action: success with the record's result, fromCache, on a  *)
(* completed record; failure with the check's reason on a pending record   *)
(* and on a failed record whose retries are used up.                        *)
C12_RefusedCallChangesNothing ==
    [][\A p \in Pairs :
        LET check == CheckIdempotency(store, now, p.actionId, p.customerId)
            record == store[KeyOf(p)]
        IN ExecStart(p) /\ ~check.canProceed
           => /\ store' = store
              /\ ~NewCall.ranAction
              /\ NewCall.pc = "returned"
              /\ record.status \in {"completed", "pending", "failed"}
              /\ record.status = "completed"
                    => NewCall.response = [success |-> TRUE, result |-> record.result,
                                           fromCache |-> TRUE, error |-> ""]
              /\ record.status = "pending"
                    => NewCall.response = InProgressRejection
              /\ record.status = "failed"
                    => /\ record.retryCount >= ledgerConfig.maxRetries
                       /\ NewCall.response = [success |-> FALSE, result |-> NoResult,
                                              fromCache |-> FALSE,
                                              error |-> "Max retries exceeded"]]_vars

C12_Witness ==
    \E c \in CallIds :
        /\ ~calls[c].ranAction
        /\ calls[c].response.error = "Max retries exceeded"
        /\ store[calls[c].key].status = "failed"
        /\ store[calls[c].key].retryCount = ledgerConfig.maxRetries
        /\ ledgerConfig.maxRetries > 0

(* C13: a step in which a caller enters executeWithIdempotency and the     *)
(* check permits writes a pending record for the key, touches no other     *)
(* key, and starts the action; when the action returns the call returns    *)
(* success with its value, when it throws the call returns failure with    *)
(* the error; a call that has returned does nothing more, so the action    *)
(* runs once per call.                                                      *)
C13_PermittedCallRunsOnce ==
    [][/\ \A p \in Pairs :
            LET check == CheckIdempotency(store, now, p.actionId, p.customerId)
            IN ExecStart(p) /\ check.canProceed
               => /\ store'[KeyOf(p)].status = "pending"
                  /\ store'[KeyOf(p)].expiresAt = now + ledgerConfig.ttlMs
                  /\ \A k \in StoreKeys \ {KeyOf(p)} : store'[k] = store[k]
                  /\ NewCall.ranAction
                  /\ NewCall.pc = "running"
       /\ \A c \in CallIds :
            /\ ActionResolves(c)
                 => /\ calls'[c].pc = "returned"
                    /\ calls'[c].response = [success |-> TRUE, result |-> Value(c),
                                             fromCache |-> FALSE, error |-> ""]
            /\ ActionRejects(c)
                 => /\ calls'[c].pc = "returned"
                    /\ calls'[c].response = [success |-> FALSE, result |-> NoResult,
                                             fromCache |-> FALSE, error |-> "action failed"]
            /\ calls'[c].ranAction = calls[c].ranAction
            /\ calls[c].pc = "returned" => calls'[c] = calls[c]
            /\ calls[c].pc = "running" => calls[c].ranAction]_vars

(* a call whose record was removed while its action ran has returned the   *)
(* action's value all the same, and another call has returned its error    *)
C13_Witness ==
    \E c, d \in CallIds :
        /\ calls[c].pc = "returned" /\ calls[c].ranAction
        /\ calls[c].response.success /\ calls[c].response.result = Value(c)
        /\ store[calls[c].key].status = "absent"
        /\ calls[d].pc = "returned" /\ calls[d].ranAction
        /\ calls[d].response.error = "action failed"

(* C14: a direct markCompleted or markFailed for a key without record      *)
(* returns false and leaves the whole store as it was.                      *)
C14_MarkWithoutRecord ==
    [][\A p \in Pairs :
        store[KeyOf(p)].status = "absent"
        => /\ \A r \in ResultChoices :
                ApiMarkCompleted(p, r) => ~lastApi'.ok /\ store' = store
           /\ ApiMarkFailed(p) => ~lastApi'.ok /\ store' = store]_vars

C14_Witness ==
    /\ lastApi.op \in {"complete", "fail"}
    /\ lastApi.pre.status = "absent"
    /\ ~lastApi.ok
    /\ store[KeyOf(lastApi.pair)].status = "absent"
    /\ \E k \in StoreKeys : store[k].status = "pending"

(* C15: a direct checkIdempotency on a key whose record is past its        *)
(* expiresAt returns canProceed = true and removes that record and no      *)
(* other; on a key without record or with a record that has not expired,   *)
(* whatever its status, it leaves the whole store as it was.               *)
C15_CheckDeletesOnlyExpired ==
    [][\A p \in Pairs :
        LET record == store[KeyOf(p)]
        IN ApiCheck(p)
           => IF record.status # "absent" /\ now > record.expiresAt
              THEN /\ lastApi'.ok
                   /\ store'[KeyOf(p)] = NoRecord
                   /\ \A k \in StoreKeys \ {KeyOf(p)} : store'[k] = store[k]
              ELSE store' = store]_vars

C15_Witness ==
    /\ lastApi.op = "check"
    /\ lastApi.pre.status = "completed"
    /\ now > lastApi.pre.expiresAt
    /\ lastApi.ok
    /\ store[KeyOf(lastApi.pair)] = NoRecord
    /\ \E k \in StoreKeys : store[k].status # "absent" /\ now > store[k].expiresAt

(* C16: a run of the sweep removes every record whose expiresAt has        *)
(* passed, a pending one with its action in flight included, and leaves    *)
(* every other record as it was.                                            *)
C16_SweepRemovesExactlyExpired ==
    [][Sweep
        => \A k \in StoreKeys :
            IF store[k].status # "absent" /\ now > store[k].expiresAt
            THEN store'[k] = NoRecord
            ELSE store'[k] = store[k]]_vars

(* a call is in flight, the record it wrote is gone, and a record that has *)
(* not expired is still there                                               *)
C16_Witness ==
    \E c \in CallIds :
        /\ calls[c].pc = "running"
        /\ store[calls[c].key].status = "absent"
        /\ \E k \in StoreKeys : store[k].status # "absent" /\ now <= store[k].expiresAt


(* the status changes of the record life cycle *)
StatusSteps ==
    {<<"absent", "pending">>, <<"pending", "completed">>,
     <<"pending", "failed">>, <<"failed", "pending">>} \cup
    {<<a, "absent">> : a \in {"pending", "completed", "failed"}}

(* C24: a key's status changes only along absent -> pending, pending ->    *)
(* completed, pending -> failed, failed -> pending and any -> absent, and   *)
(* an unexpired completed record stays completed with its result until it   *)
(* becomes absent.                                                          *)
C24_StatusStepsMonotone ==
    [][\A k \in StoreKeys :
         /\ store[k].status # store'[k].status
              => <<store[k].status, store'[k].status>> \in StatusSteps
         /\ store[k].status = "completed" /\ ~IsExpired(store[k], now)
              => \/ store'[k].status = "absent"
                 \/ /\ store'[k].status = "completed"
                    /\ store'[k].result = store[k].result]_vars

(* the calls on key k that invoked the action, and those of them that      *)
(* returned failure                                                         *)
Invocations(k) == {c \in CallIds : calls[c].key = k /\ calls[c].ranAction}
FailedAttempts(k) ==
    {c \in Invocations(k) : calls[c].pc = "returned" /\ ~calls[c].response.success}

(* C25: while nothing has expired, a failed record's retryCount is the     *)
(* number of failed attempts under its key, and an action that fails on    *)
(* every invocation is invoked at most max(1, maxRetries) times per key.   *)
C25_RetryCountCountsFailures ==
    now = 0 =>
      \A k \in StoreKeys :
        /\ store[k].status = "failed"
             => store[k].retryCount = Cardinality(FailedAttempts(k))
        /\ (\A c \in Invocations(k) : calls[c].pc = "returned" => ~calls[c].response.success)
             => Cardinality(Invocations(k)) <=
                  IF ledgerConfig.maxRetries > 1 THEN ledgerConfig.maxRetries ELSE 1

(* C26: a ledger operation on one (customerId, actionId) pair leaves the   *)
(* record of every different pair as it was.                                *)
C26_PairsIndependent ==
    [][\A p \in AllPairs : \A q \in AllPairs \ {p} :
         (\/ ApiCheck(p)
          \/ ApiStore(p)
          \/ \E r \in ResultChoices : ApiMarkCompleted(p, r)
          \/ ApiMarkFailed(p)
          \/ ApiRemove(p))
           => store'[KeyOf(q)] = store[KeyOf(q)]]_vars

(* C27: a record past its expiresAt counts as absent before the sweep has  *)
(* removed it: markCompleted and markFailed on it return false and leave   *)
(* it as it is, getActionResult returns nothing for it and getActionStatus *)
(* reports that it does not exist.                                          *)
C27_ExpiredCountsAsAbsent ==
    /\ /\ lastApi.op \in {"complete", "fail"}
       /\ lastApi.pre.status # "absent"
       /\ IsExpired(lastApi.pre, now)
       => ~lastApi.ok /\ store[KeyOf(lastApi.pair)] = lastApi.pre
    /\ \A p \in Pairs :
         store[KeyOf(p)].status # "absent" /\ IsExpired(store[KeyOf(p)], now)
         => /\ GetActionResult(store, p.actionId, p.customerId) = NoResult
            /\ ~GetActionStatus(store, p.actionId, p.customerId).exists

(* C28, as claimed: when a call that ran the action returns, the key's     *)
(* record is completed with the returned result if the call returns        *)
(* success, and failed if it returns failure.                               *)
C28_RecordSettledAtReturn ==
    [][\A c \in CallIds :
         /\ ActionResolves(c)
              => /\ calls'[c].response.success
                 /\ store'[calls[c].key].status = "completed"
                 /\ store'[calls[c].key].result = calls'[c].response.result
         /\ ActionRejects(c)
              => /\ ~calls'[c].response.success
                 /\ store'[calls[c].key].status = "failed"]_vars

(* C28: when a call that ran the action returns and the key still has a    *)
(* record, the record is completed with the returned result if the call    *)
(* returns success and failed if it returns failure; if the record is gone *)
(* by then (swept or removed), the call returns the action's outcome all   *)
(* the same and the store stays as it is.                                   *)
C28_RecordSettledIfPresent ==
    [][\A c \in CallIds :
         /\ ActionResolves(c)
              => /\ calls'[c].response.success
                 /\ calls'[c].response.result = Value(c)
                 /\ IF store[calls[c].key].status # "absent"
                    THEN /\ store'[calls[c].key].status = "completed"
                         /\ store'[calls[c].key].result = Value(c)
                    ELSE store' = store
         /\ ActionRejects(c)
              => /\ ~calls'[c].response.success
                 /\ IF store[calls[c].key].status # "absent"
                    THEN store'[calls[c].key].status = "failed"
                    ELSE store' = store]_vars

(* a call ran the action and returned success after removeAction had taken *)
(* its record away (nothing expires at time 0), and the key has no record   *)
C28_Witness ==
    \E c \in CallIds :
        /\ calls[c].ranAction
        /\ calls[c].pc = "returned"
        /\ calls[c].response.success
        /\ store[calls[c].key].status = "absent"
        /\ now = 0

-----------------------------------------------------------------------------
(* Claims about the rate limiter *)

(* C29: within one window of a channel's user at most the channel's        *)
(* maxRequests checkChannelLimit calls are allowed, and a call made when   *)
(* the window already holds that many is denied.                            *)
C29_ChannelLimitEnforced ==
    \A ch \in Channels \cap DOMAIN ChannelLimits :
        window[ch].granted <= ChannelLimits[ch].maxRequests

-----------------------------------------------------------------------------
(* Claims about the cleanup manager *)

(* C30: at most one runFullCleanup pass is under way at a time and         *)
(* isRunning is true exactly while one is; cleanupHistory never holds more *)
(* than 100 results; a runFullCleanup call made while a pass is under way  *)
(* returns an empty list and leaves the pass, the flag and the history as  *)
(* they are.                                                                *)
C30_OnePassAtATime ==
    /\ [](/\ Len(passes) <= 1
          /\ isRunning <=> passes # <<>>
          /\ Len(cleanupHistory) <= HistoryLimit)
    /\ [][RunFullCleanup /\ isRunning
            => /\ lastRun' = [how |-> "skipped", results |-> <<>>]
               /\ passes' = passes
               /\ isRunning'
               /\ cleanupHistory' = cleanupHistory]_vars

(* thirteen passes have ended, the last of which pushed the history past   *)
(* 100 results so that it was cut to the latest 100; a fourteenth pass is  *)
(* under way and a call made meanwhile has been turned away                 *)
C30_Witness ==
    /\ Len(cleanupHistory) = HistoryLimit
    /\ cleanupHistory[1].dataType = "audit_logs"
    /\ isRunning
    /\ Len(passes) = 1
    /\ lastRun.how = "skipped"
    /\ thrown = 1
====
